---- MODULE Spec2Model ----
(***************************************************************************)
(* Model of the cross-validation scripts of cgt-tool:                      *)
(*   scripts/cross-validate.py  (comparator, orchestrator, tax years)      *)
(*   scripts/convert-to-raw.py  (RAW CSV adapter for cgt-calc)             *)
(*   scripts/convert-to-cgtcalc.py  (adapter for cgtcalc)                  *)
(*                                                                         *)
(* Money is a Decimal in the source; here it is an integer number of       *)
(* units of 10^-MaxNetLen.  Strings whose characters matter (period        *)
(* labels, dates, tokens) are sequences of one-character strings; error    *)
(* messages are sequences of text chunks.                                  *)
(***************************************************************************)
EXTENDS Integers, Sequences, FiniteSets, TLC

VARIABLES
    cgt_tool,        \* compare_results: the reference CalculatorResult
    other,           \* compare_results: the candidate CalculatorResult
    discrepancies,   \* compare_results: the returned list
    compared,        \* TRUE once compare_results has returned
    date,            \* tax-year classification: the date text of a RAW row
    tax_year,        \* tax-year classification: the integer tax year
    period,          \* tax-year classification: the period label
    classified,      \* TRUE once the date has been classified
    output,          \* run_cgtcalc: the "Tax year ...: Gain ..." matches in stdout
    net_result,      \* run_cgtcalc: the CalculatorResult built from them
    parsed,          \* TRUE once run_cgtcalc has parsed the output
    input_lines,     \* convert-to-raw: the lines of the .cgt file, as token lists
    converted,       \* convert-to-raw: the list convert_to_raw returned
    printed,         \* convert-to-raw: the lines printed to stdout
    raw_done,        \* TRUE once convert-to-raw has printed its output
    nfiles,          \* main: len(files)
    processed,       \* main: the files the loop has handled, with what was returned
    all_passed,      \* main: all_passed
    summary,         \* main: summary
    result_line,     \* main: the RESULT line printed
    exit_code,       \* main: the argument of sys.exit, None while running
    cgtcalc_lines,   \* convert-to-cgtcalc: the lines printed to stdout
    cgtcalc_raised,  \* convert-to-cgtcalc: TRUE when an exception ended the script
    cgtcalc_done,    \* TRUE once convert-to-cgtcalc has ended
    batch_files,     \* batch order: what each file of a command line does
    batch_perm,      \* batch order: a second order of the same files
    outcome_in_order,   \* batch order: what main reports for the first order
    outcome_permuted,   \* batch order: what main reports for the second order
    file_env,        \* one file: what is on disk and what each subprocess does
    file_out,        \* one file: what validate_file returned and what was launched
    file_validated   \* TRUE once validate_file has returned

compareVars == <<cgt_tool, other, discrepancies, compared>>
yearVars == <<date, tax_year, period, classified>>
netVars == <<output, net_result, parsed>>
rawVars == <<input_lines, converted, printed, raw_done>>
mainVars == <<nfiles, processed, all_passed, summary, result_line, exit_code>>

cgtcalcVars == <<cgtcalc_lines, cgtcalc_raised, cgtcalc_done>>
orderVars == <<batch_files, batch_perm, outcome_in_order, outcome_permuted>>

validateVars == <<file_env, file_out, file_validated>>

vars == <<compareVars, yearVars, netVars, rawVars, mainVars, cgtcalcVars, orderVars,
          validateVars>>

\* Optional values: None is the empty tuple, a present value x is <<x>>
None == <<>>
Some(x) == <<x>>

\* ------------------------------------------------------------------------
\* Bounds
\* ------------------------------------------------------------------------
MaxRefYears == 2     \* tax years in a reference result
MaxCandYears == 2    \* tax years in a candidate result
MinYear == 1998      \* first calendar year of the dates that are classified
MaxYear == 2024      \* last calendar year of the dates that are classified
MaxMatches == 2      \* "Tax year" matches in one cgtcalc output
MaxNetLen == 2       \* characters of one matched net figure
MaxLines == 4        \* lines of a .cgt file
MaxFiles == 2        \* files on the command line

\* ------------------------------------------------------------------------
\* Generic helpers
\* ------------------------------------------------------------------------
abs(x) == IF x < 0 THEN -x ELSE x

SeqsUpTo(S, n) == UNION {[1..k -> S] : k \in 0..n}

Range(s) == {s[k] : k \in DOMAIN s}

\* str(n) for an integer, as a sequence of characters
Digit(d) == CASE d = 0 -> "0" [] d = 1 -> "1" [] d = 2 -> "2" [] d = 3 -> "3"
              [] d = 4 -> "4" [] d = 5 -> "5" [] d = 6 -> "6" [] d = 7 -> "7"
              [] d = 8 -> "8" [] d = 9 -> "9"

RECURSIVE StrNat(_)
StrNat(n) == IF n < 10 THEN <<Digit(n)>> ELSE StrNat(n \div 10) \o <<Digit(n % 10)>>

str(n) == IF n < 0 THEN <<"-">> \o StrNat(-n) ELSE StrNat(n)

\* int(s) for a sequence of decimal digit characters
DigitVal(c) == CASE c = "0" -> 0 [] c = "1" -> 1 [] c = "2" -> 2 [] c = "3" -> 3
                 [] c = "4" -> 4 [] c = "5" -> 5 [] c = "6" -> 6 [] c = "7" -> 7
                 [] c = "8" -> 8 [] c = "9" -> 9

RECURSIVE int(_)
int(s) == IF s = <<>> THEN 0
          ELSE 10 * int(SubSeq(s, 1, Len(s) - 1)) + DigitVal(s[Len(s)])

\* format(n, "02d") for n >= 0: zero-padded to at least two digits
Format02d(n) == IF n < 10 THEN <<"0">> \o StrNat(n) ELSE StrNat(n)

\* f"{year}/{(year + 1) % 100:02d}"
PeriodLabel(year) == str(year) \o <<"/">> \o Format02d((year + 1) % 100)

\* ------------------------------------------------------------------------
\* Data classes
\* ------------------------------------------------------------------------
TaxYearResult(p, gain, loss) == [period |-> p, gain |-> gain, loss |-> loss]

CalculatorResult(name, tax_years, error) ==
    [name |-> name, tax_years |-> tax_years, error |-> error]

\* A Decimal is an integer number of units of 10^-MaxNetLen, so that every
\* figure of MaxNetLen characters is exact; DecimalUnit is Decimal("1")
RECURSIVE Pow10(_)
Pow10(n) == IF n = 0 THEN 1 ELSE 10 * Pow10(n - 1)
DecimalUnit == Pow10(MaxNetLen)

\* THRESHOLD = Decimal("1.00")
THRESHOLD == DecimalUnit

\* ------------------------------------------------------------------------
\* compare_results
\* ------------------------------------------------------------------------
\* {r.period: r for r in tax_years}.get(period): the last entry wins
cgt_lookup(tax_years, p) ==
    LET hits == {k \in DOMAIN tax_years : tax_years[k].period = p}
    IN  IF hits = {} THEN None
        ELSE Some(tax_years[CHOOSE k \in hits : \A j \in hits : j <= k])

\* x > THRESHOLD
ExceedsOrReaches(x) == x >= THRESHOLD
Exceeds(x) == x > THRESHOLD

\* other_year.gain > THRESHOLD or other_year.loss > THRESHOLD
MissingWorthFlaggingGainOnly(other_year) == Exceeds(other_year.gain)
MissingWorthFlagging(other_year) == Exceeds(other_year.gain) \/ Exceeds(other_year.loss)

\* the discrepancies one candidate entry appends
YearDiscrepancies(ref_years, name, other_year) ==
    LET found == cgt_lookup(ref_years, other_year.period)
        cgt_year == found[1]
    IN  IF found = None
        THEN IF MissingWorthFlagging(other_year)
             THEN << <<other_year.period, <<"missing in cgt-tool">>,
                       other_year.gain - other_year.loss>> >>
             ELSE <<>>
        ELSE LET gain_diff == abs(cgt_year.gain - other_year.gain)
                 loss_diff == abs(cgt_year.loss - other_year.loss)
             IN  (IF Exceeds(gain_diff)
                  THEN << <<other_year.period,
                            <<"gain: cgt-tool=", cgt_year.gain, name, other_year.gain>>,
                            gain_diff>> >>
                  ELSE <<>>)
                 \o
                 (IF Exceeds(loss_diff)
                  THEN << <<other_year.period,
                            <<"loss: cgt-tool=", cgt_year.loss, name, other_year.loss>>,
                            loss_diff>> >>
                  ELSE <<>>)

RECURSIVE CompareFrom(_, _, _, _)
CompareFrom(ref_years, name, cand_years, k) ==
    IF k > Len(cand_years) THEN <<>>
    ELSE YearDiscrepancies(ref_years, name, cand_years[k])
         \o CompareFrom(ref_years, name, cand_years, k + 1)

compare_results(ref, cand) == CompareFrom(ref.tax_years, cand.name, cand.tax_years, 1)

\* ------------------------------------------------------------------------
\* Specification of the comparator: inputs drawn from bounded sets
\* ------------------------------------------------------------------------
Periods == {PeriodLabel(2022), PeriodLabel(2023)}
RefMoney == {0, DecimalUnit, DecimalUnit + 1}
CandMoney == {0, DecimalUnit \div 2, 50 * DecimalUnit}

RefEntries == {TaxYearResult(p, g, l) : p \in Periods, g \in RefMoney, l \in RefMoney}
CandEntries == {TaxYearResult(p, g, l) : p \in Periods, g \in CandMoney, l \in CandMoney}

\* cgt-tool reports each tax year once
DistinctPeriods(s) == \A a, b \in DOMAIN s : a # b => s[a].period # s[b].period

RefYearLists == {s \in SeqsUpTo(RefEntries, MaxRefYears) : DistinctPeriods(s)}
CandYearLists == SeqsUpTo(CandEntries, MaxCandYears)

IdleCompare ==
    /\ cgt_tool = CalculatorResult("cgt-tool", <<>>, None)
    /\ other = CalculatorResult("cgt-calc", <<>>, None)
    /\ discrepancies = <<>>
    /\ compared = FALSE

IdleYear ==
    /\ date = <<>>
    /\ tax_year = 0
    /\ period = <<>>
    /\ classified = FALSE

IdleNet ==
    /\ output = <<>>
    /\ net_result = CalculatorResult("cgtcalc", <<>>, None)
    /\ parsed = FALSE

IdleRaw ==
    /\ input_lines = <<>>
    /\ converted = <<>>
    /\ printed = <<>>
    /\ raw_done = FALSE

IdleCgtcalc ==
    /\ cgtcalc_lines = <<>>
    /\ cgtcalc_raised = FALSE
    /\ cgtcalc_done = FALSE

IdleOrder ==
    /\ batch_files = <<>>
    /\ batch_perm = <<>>
    /\ outcome_in_order = None
    /\ outcome_permuted = None

IdleValidate ==
    /\ file_env = <<>>
    /\ file_out = None
    /\ file_validated = FALSE

IdleMain ==
    /\ nfiles = 0
    /\ processed = <<>>
    /\ all_passed = TRUE
    /\ summary = <<>>
    /\ result_line = <<>>
    /\ exit_code = None

InitCompare ==
    /\ IdleValidate
    /\ IdleCgtcalc
    /\ IdleOrder
    /\ IdleYear
    /\ IdleNet
    /\ IdleRaw
    /\ IdleMain
    /\ cgt_tool \in {CalculatorResult("cgt-tool", s, None) : s \in RefYearLists}
    /\ other \in {CalculatorResult(n, s, None) : n \in {"cgt-calc", "cgtcalc"}, s \in CandYearLists}
    /\ discrepancies = <<>>
    /\ compared = FALSE

CompareResults ==
    /\ ~compared
    /\ discrepancies' = compare_results(cgt_tool, other)
    /\ compared' = TRUE
    /\ UNCHANGED <<cgt_tool, other>>
    /\ UNCHANGED <<yearVars, netVars, rawVars, mainVars, cgtcalcVars, orderVars, validateVars>>

NextCompare == CompareResults

SpecCompare == InitCompare /\ [][NextCompare]_vars

\* ------------------------------------------------------------------------
\* Tax-year classification of run_cgt_calc
\* ------------------------------------------------------------------------
\* re.match(r"(\d{4})-(\d{2})-(\d{2}),", line) groups, converted with int()
MatchYear(line) == int(SubSeq(line, 1, 4))
MatchMonth(line) == int(SubSeq(line, 6, 7))
MatchDay(line) == int(SubSeq(line, 9, 10))

\* UK tax year: April 6 to April 5
TaxYearOfFrom7April(year, month, day) ==
    IF month < 4 \/ (month = 4 /\ day <= 6) THEN year - 1 ELSE year
TaxYearOf(year, month, day) ==
    IF month < 4 \/ (month = 4 /\ day < 6) THEN year - 1 ELSE year

LineTaxYear(line) == TaxYearOf(MatchYear(line), MatchMonth(line), MatchDay(line))

\* Valid calendar dates rendered as YYYY-MM-DD
IsLeap(y) == (y % 4 = 0 /\ y % 100 # 0) \/ y % 400 = 0
DaysInMonth(y, m) == IF m = 2 THEN (IF IsLeap(y) THEN 29 ELSE 28)
                     ELSE IF m \in {4, 6, 9, 11} THEN 30 ELSE 31
Pad4(n) == <<Digit(n \div 1000), Digit((n \div 100) % 10), Digit((n \div 10) % 10), Digit(n % 10)>>
Pad2(n) == <<Digit(n \div 10), Digit(n % 10)>>
DateText(y, m, d) == Pad4(y) \o <<"-">> \o Pad2(m) \o <<"-">> \o Pad2(d)

CalendarDays == {<<y, m, d>> \in (MinYear..MaxYear) \X (1..12) \X (1..31) : d <= DaysInMonth(y, m)}
ValidDates == {DateText(c[1], c[2], c[3]) : c \in CalendarDays}

InitTaxYear ==
    /\ IdleValidate
    /\ IdleCgtcalc
    /\ IdleOrder
    /\ IdleCompare
    /\ IdleMain
    /\ IdleNet
    /\ IdleRaw
    /\ date \in ValidDates
    /\ tax_year = 0
    /\ period = <<>>
    /\ classified = FALSE

ClassifyDate ==
    /\ ~classified
    /\ tax_year' = LineTaxYear(date \o <<",">>)
    /\ period' = PeriodLabel(tax_year')
    /\ classified' = TRUE
    /\ UNCHANGED date
    /\ UNCHANGED <<compareVars, netVars, rawVars, mainVars, cgtcalcVars, orderVars, validateVars>>

NextTaxYear == ClassifyDate

SpecTaxYear == InitTaxYear /\ [][NextTaxYear]_vars

\* ------------------------------------------------------------------------
\* Properties of the tax-year classification
\* ------------------------------------------------------------------------
\* the calendar day a date text denotes, and its position in the calendar
DayOf(text) == <<int(SubSeq(text, 1, 4)), int(SubSeq(text, 6, 7)), int(SubSeq(text, 9, 10))>>
Ordinal(c) == c[1] * 10000 + c[2] * 100 + c[3]

\* C8: every valid date is classified; a date from 6 April of year Y through
\* 5 April of year Y+1 is in fiscal year Y, and the period label is Y, '/'
\* and (Y+1) mod 100 as two digits.
C8_TaxYearClassification ==
    /\ ~classified => ENABLED ClassifyDate
    /\ classified =>
        /\ \A Y \in (MinYear - 1)..MaxYear :
              LET day == Ordinal(DayOf(date))
              IN
              (Ordinal(<<Y, 4, 6>>) <= day /\ day <= Ordinal(<<Y + 1, 4, 5>>))
              => /\ tax_year = Y
                 /\ Len(period) = Len(str(Y)) + 3
                 /\ SubSeq(period, 1, Len(str(Y))) = str(Y)
                 /\ period[Len(period) - 2] = "/"
                 /\ DigitVal(period[Len(period) - 1]) = ((Y + 1) % 100) \div 10
                 /\ DigitVal(period[Len(period)]) = (Y + 1) % 10
        /\ date = <<"2","0","2","3","-","0","4","-","0","5">>
              => tax_year = 2022 /\ period = <<"2","0","2","2","/","2","3">>
        /\ date = <<"2","0","2","3","-","0","4","-","0","6">>
              => tax_year = 2023 /\ period = <<"2","0","2","3","/","2","4">>
        /\ date = <<"1","9","9","9","-","1","2","-","3","1">>
              => tax_year = 1999 /\ period = <<"1","9","9","9","/","0","0">>

C8_Witness ==
    /\ classified
    /\ date = <<"2","0","2","3","-","0","4","-","0","5">>
    /\ tax_year = 2022
    /\ period = <<"2","0","2","2","/","2","3">>

\* ------------------------------------------------------------------------
\* run_cgtcalc: parsing the calculator's summary
\* ------------------------------------------------------------------------
IsDigit(c) == c \in {"0", "1", "2", "3", "4", "5", "6", "7", "8", "9"}

\* match.group(2).replace(",", "")
RemoveCommas(s) == SelectSeq(s, LAMBDA c : c # ",")

Unsigned(s) == IF s # <<>> /\ s[1] = "-" THEN Tail(s) ELSE s
DotPositions(s) == {k \in DOMAIN s : s[k] = "."}

\* the texts Decimal() accepts among those made of digits, '.' and '-'
IsDecimalText(s) ==
    LET body == Unsigned(s)
    IN  /\ \A k \in DOMAIN body : IsDigit(body[k]) \/ body[k] = "."
        /\ Cardinality(DotPositions(body)) <= 1
        /\ \E k \in DOMAIN body : IsDigit(body[k])

\* Decimal(s) for an accepted text
Decimal(s) ==
    LET body == Unsigned(s)
        digits == SelectSeq(body, IsDigit)
        frac == IF DotPositions(body) = {} THEN 0
                ELSE Len(body) - (CHOOSE k \in DotPositions(body) : TRUE)
        magnitude == int(digits) * Pow10(MaxNetLen - frac)
    IN  IF s[1] = "-" THEN -magnitude ELSE magnitude

\* cgtcalc shows net gain, negative = loss
SignToBucketNoAbs(p, gain) ==
    IF gain < 0 THEN TaxYearResult(p, 0, gain) ELSE TaxYearResult(p, gain, 0)
SignToBucket(p, gain) ==
    IF gain < 0 THEN TaxYearResult(p, 0, abs(gain)) ELSE TaxYearResult(p, gain, 0)

\* one iteration of the loop over re.finditer
MatchConvertible(m) ==
    LET gain_str == RemoveCommas(m.gain) IN gain_str = <<>> \/ IsDecimalText(gain_str)

MatchResult(m) ==
    LET gain_str == RemoveCommas(m.gain)
        gain == IF gain_str # <<>> THEN Decimal(gain_str) ELSE 0
    IN  SignToBucket(m.period, gain)

\* the tail of run_cgtcalc: the loop, and the handler of the Decimal() error
ParseCgtcalcOutput(matches) ==
    IF \A k \in DOMAIN matches : MatchConvertible(matches[k])
    THEN CalculatorResult("cgtcalc", [k \in DOMAIN matches |-> MatchResult(matches[k])], None)
    ELSE CalculatorResult("cgtcalc", <<>>, Some(<<"[<class 'decimal.ConversionSyntax'>]">>))

NetChars == {"-", "5", ".", ","}
NetTexts == UNION {[1..n -> NetChars] : n \in 1..MaxNetLen}

\* the k-th summary line of an output is about the k-th tax year
OutputOf(texts) == [k \in DOMAIN texts |-> [period |-> PeriodLabel(2021 + k), gain |-> texts[k]]]

InitNet ==
    /\ IdleValidate
    /\ IdleCgtcalc
    /\ IdleOrder
    /\ IdleCompare
    /\ IdleMain
    /\ IdleYear
    /\ IdleRaw
    /\ \E n \in 0..MaxMatches : \E texts \in [1..n -> NetTexts] : output = OutputOf(texts)
    /\ net_result = CalculatorResult("cgtcalc", <<>>, None)
    /\ parsed = FALSE

RunCgtcalcParse ==
    /\ ~parsed
    /\ net_result' = ParseCgtcalcOutput(output)
    /\ parsed' = TRUE
    /\ UNCHANGED output
    /\ UNCHANGED <<compareVars, yearVars, rawVars, mainVars, cgtcalcVars, orderVars, validateVars>>

NextNet == RunCgtcalcParse

SpecNet == InitNet /\ [][NextNet]_vars

\* ------------------------------------------------------------------------
\* Properties of the sign-to-bucket rule
\* ------------------------------------------------------------------------
ReportedNet(m) == IF RemoveCommas(m.gain) = <<>> THEN 0 ELSE Decimal(RemoveCommas(m.gain))

\* C9: a negative net becomes loss = |net|, gain = 0 and a non-negative net
\* becomes gain = net, loss = 0; so gain >= 0, loss >= 0, at most one of
\* them is non-zero and gain - loss is the reported net.
C9_SignToBucket ==
    (parsed /\ net_result.error = None) =>
        /\ Len(net_result.tax_years) = Len(output)
        /\ \A k \in DOMAIN output :
              LET net == ReportedNet(output[k])
                  r == net_result.tax_years[k]
              IN  /\ r.period = output[k].period
                  /\ net < 0 => (r.loss = -net /\ r.gain = 0)
                  /\ net >= 0 => (r.gain = net /\ r.loss = 0)
                  /\ r.gain >= 0 /\ r.loss >= 0
                  /\ r.gain = 0 \/ r.loss = 0
                  /\ r.gain - r.loss = net

C9_Witness ==
    /\ parsed
    /\ output = <<[period |-> PeriodLabel(2022), gain |-> <<"-", "5">>],
                  [period |-> PeriodLabel(2023), gain |-> <<".", "5">>]>>
    /\ net_result.error = None
    /\ net_result.tax_years = <<TaxYearResult(PeriodLabel(2022), 0, 5 * DecimalUnit),
                                TaxYearResult(PeriodLabel(2023), DecimalUnit \div 2, 0)>>

\* ------------------------------------------------------------------------
\* Properties of compare_results
\* ------------------------------------------------------------------------
DiscPeriod(d) == d[1]
DiscKind(d) == d[2][1]
DiscMagnitude(d) == d[3]

IsGainDisc(d) == DiscKind(d) = "gain: cgt-tool="
IsLossDisc(d) == DiscKind(d) = "loss: cgt-tool="
IsMissingDisc(d) == DiscKind(d) = "missing in cgt-tool"

RefPeriods == {cgt_tool.tax_years[k].period : k \in DOMAIN cgt_tool.tax_years}
RefFor(p) == CHOOSE r \in Range(cgt_tool.tax_years) : r.period = p

CountDisc(p, Kind(_)) ==
    Cardinality({k \in DOMAIN discrepancies :
                    DiscPeriod(discrepancies[k]) = p /\ Kind(discrepancies[k])})

CountCand(p, Test(_)) ==
    Cardinality({k \in DOMAIN other.tax_years :
                    other.tax_years[k].period = p /\ Test(other.tax_years[k])})

FarApart(a, b) == a - b > DecimalUnit \/ b - a > DecimalUnit

\* C1: for a candidate entry whose period is in the reference, a gain
\* discrepancy is produced iff the gains differ by more than 1.00 and,
\* independently, a loss discrepancy iff the losses differ by more than 1.00;
\* nothing else is produced for that period.
C1_MismatchIffOverThreshold ==
    compared =>
        \A p \in RefPeriods :
            LET GainOff(c) == FarApart(RefFor(p).gain, c.gain)
                LossOff(c) == FarApart(RefFor(p).loss, c.loss)
            IN  /\ CountDisc(p, IsGainDisc) = CountCand(p, GainOff)
                /\ CountDisc(p, IsLossDisc) = CountCand(p, LossOff)
                /\ CountDisc(p, IsMissingDisc) = 0

C1_Witness ==
    /\ compared
    /\ Len(discrepancies) = 2
    /\ \E a, b \in DOMAIN other.tax_years :
          LET ca == other.tax_years[a]
              cb == other.tax_years[b]
          IN  /\ ca.period \in RefPeriods /\ cb.period \in RefPeriods
              /\ ca.period # cb.period
              /\ abs(RefFor(ca.period).gain - ca.gain) = DecimalUnit
              /\ abs(RefFor(ca.period).loss - ca.loss) = DecimalUnit
              /\ abs(RefFor(cb.period).gain - cb.gain) > DecimalUnit
              /\ abs(RefFor(cb.period).loss - cb.loss) > DecimalUnit
              /\ IsGainDisc(discrepancies[1]) /\ IsLossDisc(discrepancies[2])
              /\ DiscPeriod(discrepancies[1]) = cb.period
              /\ DiscPeriod(discrepancies[2]) = cb.period

\* C2: a candidate entry whose period is absent from the reference produces
\* exactly one 'missing' discrepancy if its gain or its loss exceeds 1.00,
\* and no discrepancy otherwise.
C2_MissingIffOverThreshold ==
    compared =>
        \A p \in Periods \ RefPeriods :
            LET Big(c) == c.gain > DecimalUnit \/ c.loss > DecimalUnit
                AnyDisc(d) == TRUE
            IN  /\ CountDisc(p, IsMissingDisc) = CountCand(p, Big)
                /\ CountDisc(p, AnyDisc) = CountDisc(p, IsMissingDisc)

C2_Witness ==
    /\ compared
    /\ cgt_tool.tax_years = <<>>
    /\ other.tax_years = <<TaxYearResult(PeriodLabel(2022), 50 * DecimalUnit, 0),
                           TaxYearResult(PeriodLabel(2023), DecimalUnit \div 2, 0)>>
    /\ Len(discrepancies) = 1
    /\ IsMissingDisc(discrepancies[1])
    /\ DiscPeriod(discrepancies[1]) = PeriodLabel(2022)

\* C3: every discrepancy returned by compare_results carries a magnitude
\* that is never negative (inputs have non-negative gain and loss).
C3_MagnitudeNonNegative ==
    compared => \A k \in DOMAIN discrepancies : DiscMagnitude(discrepancies[k]) >= 0

\* ------------------------------------------------------------------------
\* convert-to-raw.py
\* ------------------------------------------------------------------------
\* A line is the list of its whitespace-separated tokens (line.strip() and
\* the \s+ of the patterns); a token is a sequence of characters.
BUY == <<"B", "U", "Y">>
SELL == <<"S", "E", "L", "L">>
SPLIT == <<"S", "P", "L", "I", "T">>
RATIO == <<"R", "A", "T", "I", "O">>
FEES == <<"F", "E", "E", "S">>
GBP == <<"G", "B", "P">>
AT == <<"@">>

UpperCase == {"A", "B", "C", "D", "E", "F", "G", "H", "I", "J", "K", "L", "M",
              "N", "O", "P", "Q", "R", "S", "T", "U", "V", "W", "X", "Y", "Z"}

\* \d{4}-\d{2}-\d{2}
IsDateShaped(tok) ==
    /\ Len(tok) = 10
    /\ \A k \in {1, 2, 3, 4, 6, 7, 9, 10} : IsDigit(tok[k])
    /\ tok[5] = "-" /\ tok[8] = "-"

\* [A-Z]{3}(?!\S)
IsCurrencyToken(tok) == Len(tok) = 3 /\ \A k \in 1..3 : tok[k] \in UpperCase

\* the BUY and SELL patterns of parse_cgt_line, which differ in the keyword
TradeMatch(line, keyword) ==
    /\ Len(line) >= 6
    /\ IsDateShaped(line[1])
    /\ line[2] = keyword
    /\ line[5] = AT

\* the groups (currency, fees) that follow the price
TradeGroupsNoLookahead(line) ==
    LET has_ccy == /\ Len(line) >= 7 /\ Len(line[7]) >= 3
                   /\ \A k \in 1..3 : line[7][k] \in UpperCase
        whole == has_ccy /\ Len(line[7]) = 3
        has_fees == IF has_ccy THEN whole /\ Len(line) >= 9 /\ line[8] = FEES
                    ELSE Len(line) >= 8 /\ line[7] = FEES
    IN  [currency |-> IF has_ccy THEN Some(SubSeq(line[7], 1, 3)) ELSE None,
         fees |-> IF has_fees THEN Some(line[IF has_ccy THEN 9 ELSE 8]) ELSE None]
TradeGroups(line) ==
    LET has_ccy == Len(line) >= 7 /\ IsCurrencyToken(line[7])
        rest == IF has_ccy THEN 8 ELSE 7
        has_fees == Len(line) >= rest + 1 /\ line[rest] = FEES
    IN  [currency |-> IF has_ccy THEN Some(line[7]) ELSE None,
         fees |-> IF has_fees THEN Some(line[rest + 1]) ELSE None]

TradeDict(line, keyword) ==
    LET g == TradeGroups(line)
        currency == IF g.currency = Some(<<"F", "E", "E">>) THEN None ELSE g.currency
    IN  [action |-> keyword,
         date |-> line[1],
         symbol |-> line[3],
         quantity |-> line[4],
         price |-> line[6],
         currency |-> IF currency = None THEN GBP ELSE currency[1],
         fees |-> IF g.fees = None THEN <<"0">> ELSE g.fees[1]]

parse_cgt_line_buy_only(line) ==
    IF line = <<>> \/ line[1][1] = "#" THEN None
    ELSE IF TradeMatch(line, BUY) THEN Some(TradeDict(line, BUY))
    ELSE None
parse_cgt_line(line) ==
    IF line = <<>> \/ line[1][1] = "#" THEN None
    ELSE IF TradeMatch(line, BUY) THEN Some(TradeDict(line, BUY))
    ELSE IF TradeMatch(line, SELL) THEN Some(TradeDict(line, SELL))
    ELSE None

\* the f-string of convert_to_raw
csv_line(tx) ==
    tx.date \o <<",">> \o tx.action \o <<",">> \o tx.symbol \o <<",">> \o tx.quantity
        \o <<",">> \o tx.price \o <<",">> \o tx.fees \o <<",">> \o tx.currency

RECURSIVE convert_to_raw_from(_, _)
convert_to_raw_from(file, k) ==
    IF k > Len(file) THEN <<>>
    ELSE LET tx == parse_cgt_line(file[k])
         IN  (IF tx # None THEN <<csv_line(tx[1])>> ELSE <<>>)
             \o convert_to_raw_from(file, k + 1)

convert_to_raw(file) == convert_to_raw_from(file, 1)

\* l.split(",")
RECURSIVE split(_, _)
split(s, sep) ==
    LET seps == {k \in DOMAIN s : s[k] = sep}
    IN  IF seps = {} THEN <<s>>
        ELSE LET k == CHOOSE i \in seps : \A j \in seps : i <= j
             IN  <<SubSeq(s, 1, k - 1)>> \o split(SubSeq(s, k + 1, Len(s)), sep)

\* order of the characters of a date text
CharCode(c) == IF c = "-" THEN 45 ELSE 48 + DigitVal(c)

\* s < t for strings
RECURSIVE StrLess(_, _)
StrLess(s, t) ==
    IF t = <<>> THEN FALSE
    ELSE IF s = <<>> THEN TRUE
    ELSE IF s[1] # t[1] THEN CharCode(s[1]) < CharCode(t[1])
    ELSE StrLess(Tail(s), Tail(t))

\* key=lambda l: (l.split(",")[0], 0 if l.split(",")[1] == "BUY" else 1)
SortKeySellFirst(l) == <<split(l, ",")[1], IF split(l, ",")[2] = BUY THEN 1 ELSE 0>>
SortKey(l) == <<split(l, ",")[1], IF split(l, ",")[2] = BUY THEN 0 ELSE 1>>

KeyLess(a, b) == StrLess(a[1], b[1]) \/ (a[1] = b[1] /\ a[2] < b[2])

\* list.sort(key=...) is stable: an element goes after the elements already
\* placed whose key is not greater than its own
InsertBeforeEqual(sorted, l) ==
    LET before == {k \in DOMAIN sorted : KeyLess(SortKey(sorted[k]), SortKey(l))}
        n == Cardinality(before)
    IN  SubSeq(sorted, 1, n) \o <<l>> \o SubSeq(sorted, n + 1, Len(sorted))
InsertStable(sorted, l) ==
    LET before == {k \in DOMAIN sorted : ~KeyLess(SortKey(l), SortKey(sorted[k]))}
        n == Cardinality(before)
    IN  SubSeq(sorted, 1, n) \o <<l>> \o SubSeq(sorted, n + 1, Len(sorted))

RECURSIVE sort_lines(_)
sort_lines(lines) ==
    IF lines = <<>> THEN <<>>
    ELSE InsertStable(sort_lines(SubSeq(lines, 1, Len(lines) - 1)), lines[Len(lines)])

\* the .cgt files of the model
JUN01 == <<"2", "0", "2", "3", "-", "0", "6", "-", "0", "1">>
JUN02 == <<"2", "0", "2", "3", "-", "0", "6", "-", "0", "2">>

TradeLines == {<<dt, kw, sym, <<"1", "0">>, AT, <<"5">> >> :
                  dt \in {JUN01, JUN02}, kw \in {BUY, SELL}, sym \in {<<"A">>, <<"B">>}}
OtherLines == {<<JUN01, SPLIT, <<"A">>, RATIO, <<"2">> >>, <<<<"#">>, <<"x">> >>}
CgtLines == TradeLines \cup OtherLines
CgtFiles == SeqsUpTo(CgtLines, MaxLines)

InitRaw ==
    /\ IdleValidate
    /\ IdleCgtcalc
    /\ IdleOrder
    /\ IdleCompare
    /\ IdleMain
    /\ IdleYear
    /\ IdleNet
    /\ input_lines \in CgtFiles
    /\ converted = <<>>
    /\ printed = <<>>
    /\ raw_done = FALSE

\* main of convert-to-raw.py for an existing file
RawMain ==
    /\ ~raw_done
    /\ converted' = convert_to_raw(input_lines)
    /\ printed' = sort_lines(converted')
    /\ raw_done' = TRUE
    /\ UNCHANGED input_lines
    /\ UNCHANGED <<compareVars, yearVars, netVars, mainVars, cgtcalcVars, orderVars, validateVars>>

NextRaw == RawMain

SpecRaw == InitRaw /\ [][NextRaw]_vars

\* ------------------------------------------------------------------------
\* Properties of the output order of convert-to-raw
\* ------------------------------------------------------------------------
RowDate(l) == SubSeq(l, 1, 10)
RowDay(l) == Ordinal(DayOf(RowDate(l)))
RowIsBuy(l) == SubSeq(l, 12, 14) = BUY /\ l[15] = ","
RowsLike(rows, l) == SelectSeq(rows, LAMBDA r : RowDate(r) = RowDate(l) /\ RowIsBuy(r) = RowIsBuy(l))
Occurrences(rows, l) == Cardinality({k \in DOMAIN rows : rows[k] = l})

\* C10: the printed rows are a permutation of the converted rows, sorted by
\* date with BUY before SELL on the same date, and rows with the same date
\* and action keep the order of their lines in the file.
C10_SortedStablePermutation ==
    raw_done =>
        /\ Len(printed) = Len(converted)
        /\ \A l \in Range(converted) \cup Range(printed) :
              Occurrences(printed, l) = Occurrences(converted, l)
        /\ \A i, j \in DOMAIN printed :
              i < j => /\ RowDay(printed[i]) <= RowDay(printed[j])
                       /\ RowDay(printed[i]) = RowDay(printed[j])
                             => (RowIsBuy(printed[i]) \/ ~RowIsBuy(printed[j]))
        /\ \A l \in Range(converted) : RowsLike(printed, l) = RowsLike(converted, l)

C10_Witness ==
    /\ raw_done
    /\ Len(converted) = 4
    /\ RowDate(converted[1]) = JUN02
    /\ RowDate(converted[2]) = JUN01 /\ ~RowIsBuy(converted[2])
    /\ RowDate(converted[3]) = JUN01 /\ RowIsBuy(converted[3])
    /\ RowDate(converted[4]) = JUN01 /\ RowIsBuy(converted[4])
    /\ converted[3] # converted[4]
    /\ printed = <<converted[3], converted[4], converted[2], converted[1]>>

\* ------------------------------------------------------------------------
\* cross-validate.py: running the calculators on one file
\* ------------------------------------------------------------------------
\* A file of a batch is described by what is on disk and by what each
\* subprocess does when it is run on it:
\*   exists        the path exists
\*   file          the lines of the .cgt file
\*   tool          cgt-tool: [exc, returncode, stderr, tax_years]
\*   raw_conv      convert-to-raw.py:     "ok", "fail" or "timeout"
\*   uvx           uvx cgt-calc:          "ok", "missing" or "timeout"
\*   calc_out      the figures cgt-calc prints for a year: [gain, loss]
\*   cgtcalc_found a cgtcalc binary is at one of the three paths
\*   cgtcalc_conv  convert-to-cgtcalc.py: "ok", "empty", "fail" or "timeout"
\*   cgtcalc_run   cgtcalc:               "ok" or "timeout"
\*   cgtcalc_out   the "Tax year ...: Gain ..." matches in cgtcalc's stdout

UNSPLIT == <<"U", "N", "S", "P", "L", "I", "T">>
CAPRETURN == <<"C", "A", "P", "R", "E", "T", "U", "R", "N">>
UNSUPPORTED_OPS == {SPLIT, UNSPLIT, CAPRETURN}

LowerCase == {"a", "b", "c", "d", "e", "f", "g", "h", "i", "j", "k", "l", "m",
              "n", "o", "p", "q", "r", "s", "t", "u", "v", "w", "x", "y", "z"}
IsWordChar(c) == c \in UpperCase \/ c \in LowerCase \/ IsDigit(c) \/ c = "_"

\* re.search(r"\b(op)\b", ...) inside one token
TokenHasWord(tok, op) ==
    \E i \in 1..(Len(tok) - Len(op) + 1) :
        /\ SubSeq(tok, i, i + Len(op) - 1) = op
        /\ i = 1 \/ ~IsWordChar(tok[i - 1])
        /\ i + Len(op) - 1 = Len(tok) \/ ~IsWordChar(tok[i + Len(op)])

has_unsupported_ops_in_comments(file) ==
    \E k \in DOMAIN file :
        /\ file[k] # <<>>
        /\ \E t \in DOMAIN file[k], op \in UNSUPPORTED_OPS : TokenHasWord(file[k][t], op)
has_unsupported_ops(file) ==
    \E k \in DOMAIN file :
        /\ file[k] # <<>>
        /\ file[k][1][1] # "#"
        /\ \E t \in DOMAIN file[k], op \in UNSUPPORTED_OPS : TokenHasWord(file[k][t], op)

\* the truth value of CalculatorResult.error: None and "" are false
Truthy(error) == error # None /\ error[1] # <<>>

\* error.startswith(prefix) and (text in error), on chunked messages
StartsWith(msg, prefix) == msg # <<>> /\ msg[1] = prefix
Contains(msg, text) == \E k \in DOMAIN msg : msg[k] = text

TimeoutMessage == <<"Command timed out after ", "seconds">>

run_cgt_tool(e) ==
    IF e.tool.exc # None
    THEN CalculatorResult("cgt-tool", <<>>, Some(e.tool.exc[1]))
    ELSE IF e.tool.returncode # 0
    THEN CalculatorResult("cgt-tool", <<>>, Some(e.tool.stderr))
    ELSE CalculatorResult("cgt-tool", e.tool.tax_years, None)

\* sorted(years)
RECURSIVE sorted(_)
sorted(S) == IF S = {} THEN <<>>
             ELSE LET m == CHOOSE x \in S : \A y \in S : x <= y
                  IN  <<m>> \o sorted(S \ {m})

\* re.match(r"(\d{4})-(\d{2})-(\d{2}),", line)
IsRawRow(line) == Len(line) >= 11 /\ IsDateShaped(SubSeq(line, 1, 10)) /\ line[11] = ","

run_cgt_calc(e) ==
    IF has_unsupported_ops(e.file)
    THEN CalculatorResult("cgt-calc", <<>>, Some(<<"SKIP", ": unsupported ops for cgt-calc">>))
    ELSE IF e.raw_conv = "timeout"
    THEN CalculatorResult("cgt-calc", <<>>, Some(TimeoutMessage))
    ELSE IF e.raw_conv = "fail"
    THEN CalculatorResult("cgt-calc", <<>>, Some(<<"Conversion failed: ", "Traceback">>))
    ELSE LET raw_content == sort_lines(convert_to_raw(e.file))
             years == {LineTaxYear(raw_content[k]) :
                          k \in {j \in DOMAIN raw_content : IsRawRow(raw_content[j])}}
             ordered == sorted(years)
         IN  IF raw_content = <<>>
             THEN CalculatorResult("cgt-calc", <<>>, Some(<<"No transactions", " to convert">>))
             ELSE IF years # {} /\ e.uvx = "missing"
             THEN CalculatorResult("cgt-calc", <<>>,
                                   Some(<<"uvx not found", " - install with: pip install uv">>))
             ELSE IF years # {} /\ e.uvx = "timeout"
             THEN CalculatorResult("cgt-calc", <<>>, Some(TimeoutMessage))
             ELSE CalculatorResult("cgt-calc",
                      [k \in DOMAIN ordered |->
                          TaxYearResult(PeriodLabel(ordered[k]), e.calc_out.gain, e.calc_out.loss)],
                      None)

run_cgtcalc(e) ==
    IF ~e.cgtcalc_found
    THEN CalculatorResult("cgtcalc", <<>>, Some(<<"cgtcalc not found", ". Clone and build">>))
    ELSE IF e.cgtcalc_conv = "timeout"
    THEN CalculatorResult("cgtcalc", <<>>, Some(TimeoutMessage))
    ELSE IF e.cgtcalc_conv = "fail"
    THEN CalculatorResult("cgtcalc", <<>>, Some(<<"Conversion failed: ", "Traceback">>))
    ELSE IF e.cgtcalc_conv = "empty"
    THEN CalculatorResult("cgtcalc", <<>>, Some(<<"No transactions", " to convert">>))
    ELSE IF e.cgtcalc_run = "timeout"
    THEN CalculatorResult("cgtcalc", <<>>, Some(TimeoutMessage))
    ELSE ParseCgtcalcOutput(e.cgtcalc_out)

\* "skip" if calc_result.error.startswith("SKIP") else "error"
CalcErrorStatus(msg) == IF StartsWith(msg, "SKIP") THEN "skip" ELSE "error"

CgtcalcErrorStatus(msg) ==
    IF StartsWith(msg, "cgtcalc not found") \/ Contains(msg, "No transactions")
    THEN "skip" ELSE "error"

\* all_passed after the two comparisons
BothPassedIgnoringCgtcalc(calc_disc, cgtcalc_disc) == calc_disc = <<>>
BothPassed(calc_disc, cgtcalc_disc) == calc_disc = <<>> /\ cgtcalc_disc = <<>>

\* validate_file returns (all_passed, cgt_calc_status, cgtcalc_status); the
\* discrepancies it prints for each calculator are kept with the result
validate_file(e) ==
    LET cgt_result == run_cgt_tool(e)
        calc_result == run_cgt_calc(e)
        cgtcalc_result == run_cgtcalc(e)
        calc_compared == ~Truthy(calc_result.error)
        cgtcalc_compared == ~Truthy(cgtcalc_result.error)
        calc_disc == IF calc_compared THEN compare_results(cgt_result, calc_result) ELSE <<>>
        cgtcalc_disc == IF cgtcalc_compared THEN compare_results(cgt_result, cgtcalc_result)
                        ELSE <<>>
    IN  IF Truthy(cgt_result.error)
        THEN [passed |-> FALSE, calc_status |-> "error", cgtcalc_status |-> "error",
              calc_ran |-> FALSE, cgtcalc_ran |-> FALSE,
              calc_compared |-> FALSE, cgtcalc_compared |-> FALSE,
              calc_disc |-> <<>>, cgtcalc_disc |-> <<>>]
        ELSE [passed |-> BothPassed(calc_disc, cgtcalc_disc),
              calc_status |-> IF ~calc_compared THEN CalcErrorStatus(calc_result.error[1])
                              ELSE IF calc_disc # <<>> THEN "diff" ELSE "ok",
              cgtcalc_status |-> IF ~cgtcalc_compared
                                 THEN CgtcalcErrorStatus(cgtcalc_result.error[1])
                                 ELSE IF cgtcalc_disc # <<>> THEN "diff" ELSE "ok",
              calc_ran |-> TRUE, cgtcalc_ran |-> TRUE,
              calc_compared |-> calc_compared, cgtcalc_compared |-> cgtcalc_compared,
              calc_disc |-> calc_disc, cgtcalc_disc |-> cgtcalc_disc]

\* ------------------------------------------------------------------------
\* cross-validate.py: main
\* ------------------------------------------------------------------------
BuyLine == <<JUN01, BUY, <<"A">>, <<"1", "0">>, AT, <<"5">> >>
SplitLine == <<JUN01, SPLIT, <<"A">>, RATIO, <<"2">> >>
CommentLine == << <<"#">>, <<"x">> >>

BatchFiles == {<<BuyLine>>, <<BuyLine, SplitLine>>, <<CommentLine>>}

ToolRuns ==
    {[exc |-> Some(TimeoutMessage), returncode |-> 0, stderr |-> <<>>, tax_years |-> <<>>],
     [exc |-> None, returncode |-> 1, stderr |-> <<"Error: ", "parse error">>, tax_years |-> <<>>],
     [exc |-> None, returncode |-> 1, stderr |-> <<>>, tax_years |-> <<>>],
     [exc |-> None, returncode |-> 0, stderr |-> <<>>, tax_years |-> <<>>],
     [exc |-> None, returncode |-> 0, stderr |-> <<>>,
      tax_years |-> <<TaxYearResult(PeriodLabel(2023), 5 * DecimalUnit, 0)>>]}

CalcOuts == {[gain |-> 5 * DecimalUnit, loss |-> 0],
             [gain |-> 6 * DecimalUnit, loss |-> 0],
             [gain |-> 55 * DecimalUnit, loss |-> 0]}
NoCalcOut == [gain |-> 0, loss |-> 0]

CalcRuns ==
    {[raw_conv |-> c, uvx |-> "ok", calc_out |-> NoCalcOut] : c \in {"timeout", "fail"}}
    \cup {[raw_conv |-> "ok", uvx |-> u, calc_out |-> NoCalcOut] : u \in {"missing", "timeout"}}
    \cup {[raw_conv |-> "ok", uvx |-> "ok", calc_out |-> o] : o \in CalcOuts}

CgtcalcOuts == {<<[period |-> PeriodLabel(2023), gain |-> t]>> :
                   t \in {<<"5">>, <<"5", "5">>, <<"-">>}}

CgtcalcRuns ==
    {[cgtcalc_found |-> FALSE, cgtcalc_conv |-> "ok", cgtcalc_run |-> "ok", cgtcalc_out |-> <<>>]}
    \cup {[cgtcalc_found |-> TRUE, cgtcalc_conv |-> c, cgtcalc_run |-> "ok", cgtcalc_out |-> <<>>]
              : c \in {"timeout", "fail", "empty"}}
    \cup {[cgtcalc_found |-> TRUE, cgtcalc_conv |-> "ok", cgtcalc_run |-> "timeout",
            cgtcalc_out |-> <<>>]}
    \cup {[cgtcalc_found |-> TRUE, cgtcalc_conv |-> "ok", cgtcalc_run |-> "ok", cgtcalc_out |-> o]
              : o \in CgtcalcOuts}

FileEnvs ==
    {[exists |-> TRUE, file |-> f, tool |-> t,
      raw_conv |-> c.raw_conv, uvx |-> c.uvx, calc_out |-> c.calc_out,
      cgtcalc_found |-> g.cgtcalc_found, cgtcalc_conv |-> g.cgtcalc_conv,
      cgtcalc_run |-> g.cgtcalc_run, cgtcalc_out |-> g.cgtcalc_out]
        : f \in BatchFiles, t \in ToolRuns, c \in CalcRuns, g \in CgtcalcRuns}

\* what happened to a file, independently of what validate_file made of it
ToolOk(e) == ~Truthy(run_cgt_tool(e).error)
CalcLaunched(e) ==
    /\ ToolOk(e) /\ ~has_unsupported_ops(e.file)
    /\ e.raw_conv = "ok" /\ convert_to_raw(e.file) # <<>>
CgtcalcLaunched(e) == ToolOk(e) /\ e.cgtcalc_found /\ e.cgtcalc_conv = "ok"

FileFacts(e) ==
    [exists |-> TRUE,
     tool_failed |-> e.tool.exc # None \/ e.tool.returncode # 0,
     tool_error |-> ~ToolOk(e),
     calc_unsupported |-> has_unsupported_ops(e.file),
     calc_timeout |-> (CalcLaunched(e) /\ e.uvx = "timeout")
                        \/ (ToolOk(e) /\ ~has_unsupported_ops(e.file) /\ e.raw_conv = "timeout"),
     calc_unavailable |-> CalcLaunched(e) /\ e.uvx = "missing",
     cgtcalc_timeout |-> (CgtcalcLaunched(e) /\ e.cgtcalc_run = "timeout")
                           \/ (ToolOk(e) /\ e.cgtcalc_found /\ e.cgtcalc_conv = "timeout"),
     cgtcalc_unavailable |-> ToolOk(e) /\ ~e.cgtcalc_found]

MissingFacts ==
    [exists |-> FALSE, tool_failed |-> FALSE, tool_error |-> FALSE, calc_unsupported |-> FALSE,
     calc_timeout |-> FALSE, calc_unavailable |-> FALSE,
     cgtcalc_timeout |-> FALSE, cgtcalc_unavailable |-> FALSE]

NotValidated ==
    [passed |-> FALSE, calc_status |-> "none", cgtcalc_status |-> "none",
     calc_ran |-> FALSE, cgtcalc_ran |-> FALSE,
     calc_compared |-> FALSE, cgtcalc_compared |-> FALSE,
     calc_disc |-> <<>>, cgtcalc_disc |-> <<>>]

\* the existing files a command line can name, each with validate_file's result
FileRuns == {[facts |-> FileFacts(e), out |-> validate_file(e)] : e \in FileEnvs}

Statuses == {"ok", "diff", "skip", "error"}

InitMain ==
    /\ IdleValidate
    /\ IdleCgtcalc
    /\ IdleOrder
    /\ IdleCompare
    /\ IdleYear
    /\ IdleNet
    /\ IdleRaw
    /\ nfiles \in 1..MaxFiles
    /\ processed = <<>>
    /\ all_passed = TRUE
    /\ summary = [c \in {"cgt-calc", "cgtcalc"} |-> [st \in Statuses |-> 0]]
    /\ result_line = <<>>
    /\ exit_code = None

\* loop body: if not f.exists()
MainFileNotFound ==
    /\ exit_code = None
    /\ Len(processed) < nfiles
    /\ all_passed' = FALSE
    /\ processed' = Append(processed, [facts |-> MissingFacts, out |-> NotValidated])
    /\ UNCHANGED <<nfiles, summary, result_line, exit_code>>
    /\ UNCHANGED <<compareVars, yearVars, netVars, rawVars, cgtcalcVars, orderVars, validateVars>>

\* loop body: validate_file(f) and the tallies
MainValidateFile ==
    /\ exit_code = None
    /\ Len(processed) < nfiles
    /\ \E r \in FileRuns :
          /\ all_passed' = (all_passed /\ r.out.passed)
          /\ summary' = [summary EXCEPT !["cgt-calc"][r.out.calc_status] = @ + 1,
                                        !["cgtcalc"][r.out.cgtcalc_status] = @ + 1]
          /\ processed' = Append(processed, r)
    /\ UNCHANGED <<nfiles, result_line, exit_code>>
    /\ UNCHANGED <<compareVars, yearVars, netVars, rawVars, cgtcalcVars, orderVars, validateVars>>

\* after the loop: the RESULT line and sys.exit
FinalPassed(passed, sm) ==
    IF passed THEN TRUE
    ELSE LET cgtcalc_failed == sm["cgtcalc"]["diff"] > 0 \/ sm["cgtcalc"]["error"] > 0
         IN  ~cgtcalc_failed /\ sm["cgt-calc"]["diff"] > 0

MainExit ==
    /\ exit_code = None
    /\ Len(processed) = nfiles
    /\ result_line' = IF all_passed THEN <<"RESULT: All validations passed">>
                       ELSE IF FinalPassed(all_passed, summary)
                       THEN <<"RESULT: Passed (cgtcalc matches, ignoring cgt-calc discrepancies)">>
                       ELSE <<"RESULT: Some validations failed or had discrepancies">>
    /\ all_passed' = FinalPassed(all_passed, summary)
    /\ exit_code' = Some(IF all_passed' THEN 0 ELSE 1)
    /\ UNCHANGED <<nfiles, processed, summary>>
    /\ UNCHANGED <<compareVars, yearVars, netVars, rawVars, cgtcalcVars, orderVars, validateVars>>

Next == MainFileNotFound \/ MainValidateFile \/ MainExit

Spec == InitMain /\ [][Next]_vars

\* ------------------------------------------------------------------------
\* Properties of validate_file and main
\* ------------------------------------------------------------------------
Validated == {k \in DOMAIN processed : processed[k].facts.exists}
NoDiscrepancies(r) == Len(r.out.calc_disc) + Len(r.out.cgtcalc_disc) = 0

\* C4 as stated: validate_file reports a file as passed if and only if zero
\* discrepancies were produced across all periods and all calculators that
\* were compared for that file.
C4_PassedIffNoDiscrepancies ==
    \A k \in Validated : processed[k].out.passed <=> NoDiscrepancies(processed[k])

\* C4 amended: validate_file reports a file as passed if and only if cgt-tool
\* returned no error message for it and zero discrepancies were produced
\* across all periods and all calculators that were compared for that file.
C4_PassedIffToolOkAndNoDiscrepancies ==
    \A k \in Validated :
        processed[k].out.passed
            <=> (~processed[k].facts.tool_error /\ NoDiscrepancies(processed[k]))

C4_Witness ==
    /\ Len(processed) = 2
    /\ Validated = {1, 2}
    /\ processed[1].out.passed
    /\ processed[1].out.calc_compared /\ processed[1].out.cgtcalc_compared
    /\ ~processed[2].out.passed
    /\ ~processed[2].facts.tool_error
    /\ processed[2].out.calc_disc = <<>>
    /\ Len(processed[2].out.cgtcalc_disc) = 1

EveryFilePassed ==
    \A k \in DOMAIN processed : processed[k].facts.exists /\ processed[k].out.passed

Failed(r) == ~r.facts.exists \/ ~r.out.passed

\* the only failures are cgt-calc discrepancies, and cgtcalc reported no
\* discrepancy and no error on any file
OnlyCgtCalcDisagrees ==
    /\ \E k \in DOMAIN processed : Failed(processed[k])
    /\ \A k \in DOMAIN processed :
          Failed(processed[k]) =>
              /\ processed[k].facts.exists
              /\ ~processed[k].facts.tool_error
              /\ processed[k].out.calc_disc # <<>>
              /\ processed[k].out.cgtcalc_disc = <<>>
    /\ \A k \in DOMAIN processed : processed[k].out.cgtcalc_status \notin {"diff", "error"}

\* C5: main exits with status 0 exactly when every file passed validation (a
\* missing file or a cgt-tool failure counts as not passed) or when the only
\* failures are cgt-calc discrepancies while cgtcalc agreed; otherwise 1.
C5_ExitStatus ==
    exit_code # None =>
        /\ exit_code \in {Some(0), Some(1)}
        /\ exit_code = Some(0) <=> (EveryFilePassed \/ OnlyCgtCalcDisagrees)

\* C6: when an external calculator times out on a file its status is 'error',
\* the other calculator and the remaining files are still processed, and
\* neither the file nor the batch is reported as passed.
C6_CalculatorErrorNotPassed ==
    /\ \A k \in Validated :
          LET r == processed[k]
          IN  /\ r.facts.calc_timeout =>
                    (r.out.calc_status = "error" /\ r.out.cgtcalc_ran /\ ~r.out.passed)
              /\ r.facts.cgtcalc_timeout =>
                    (r.out.cgtcalc_status = "error" /\ r.out.calc_ran /\ ~r.out.passed)
    /\ (exit_code # None
          /\ \E k \in Validated : processed[k].facts.calc_timeout
                                      \/ processed[k].facts.cgtcalc_timeout)
        => (Len(processed) = nfiles /\ exit_code = Some(1)
              /\ result_line # <<"RESULT: All validations passed">>)

\* C7: when an external calculator is unavailable (no cgtcalc binary, no uvx
\* launcher) its status for the file is 'skip', never 'error' or 'diff', and
\* the unavailability does not make the file fail.
C7_UnavailableIsSkip ==
    \A k \in Validated :
        LET r == processed[k]
        IN  /\ r.facts.cgtcalc_unavailable =>
                  (r.out.cgtcalc_status = "skip" /\ (r.out.passed <=> r.out.calc_disc = <<>>))
            /\ r.facts.calc_unavailable =>
                  (r.out.calc_status = "skip" /\ (r.out.passed <=> r.out.cgtcalc_disc = <<>>))

\* ------------------------------------------------------------------------
\* convert-to-cgtcalc.py
\* ------------------------------------------------------------------------
DIVIDEND == <<"D", "I", "V", "I", "D", "E", "N", "D">>
TOTAL == <<"T", "O", "T", "A", "L">>

\* (\w{3}) right after the \s+ that follows the price: the first three
\* characters of the next token, whatever follows them
StartsWithWord3(tok) == Len(tok) >= 3 /\ \A k \in 1..3 : IsWordChar(tok[k])

\* the BUY and SELL patterns, which differ in the keyword
CgtcalcTradeMatch(line, keyword) ==
    /\ Len(line) >= 6
    /\ IsDateShaped(line[1])
    /\ line[2] = keyword
    /\ line[5] = AT

\* the amount after FEES.  The FEES group starts with \s+, so after a currency
\* group it matches only when that group took a whole three-character token.
CgtcalcTradeFees(line) ==
    IF Len(line) >= 7 /\ StartsWithWord3(line[7])
    THEN (IF Len(line[7]) = 3 /\ Len(line) >= 9 /\ line[8] = FEES
          THEN Some(line[9]) ELSE None)
    ELSE IF Len(line) >= 8 /\ line[7] = FEES THEN Some(line[8]) ELSE None

CgtcalcTradeDict(line, keyword) ==
    LET fees == CgtcalcTradeFees(line)
    IN  [type |-> keyword,
         date |-> line[1],
         ticker |-> line[3],
         amount |-> line[4],
         price |-> line[6],
         fees |-> IF fees = None THEN <<"0">> ELSE fees[1]]

\* the DIVIDEND and CAPRETURN patterns
TotalMatch(line, keyword) ==
    /\ Len(line) >= 6
    /\ IsDateShaped(line[1])
    /\ line[2] = keyword
    /\ line[5] = TOTAL

TotalDict(line, keyword) ==
    [type |-> keyword, date |-> line[1], ticker |-> line[3],
     amount |-> line[4], value |-> line[6]]

\* the SPLIT and UNSPLIT patterns
RatioMatch(line, keyword) ==
    /\ Len(line) >= 5
    /\ IsDateShaped(line[1])
    /\ line[2] = keyword
    /\ line[4] = RATIO

RatioDict(line, keyword) ==
    [type |-> keyword, date |-> line[1], ticker |-> line[3], ratio |-> line[5]]

\* parse_cgt_line of convert-to-cgtcalc.py
cgtcalc_parse_cgt_line_no_dividend(line) ==
    IF line = <<>> \/ line[1][1] = "#" THEN None
    ELSE IF CgtcalcTradeMatch(line, BUY) THEN Some(CgtcalcTradeDict(line, BUY))
    ELSE IF CgtcalcTradeMatch(line, SELL) THEN Some(CgtcalcTradeDict(line, SELL))
    ELSE IF TotalMatch(line, CAPRETURN) THEN Some(TotalDict(line, CAPRETURN))
    ELSE IF RatioMatch(line, SPLIT) THEN Some(RatioDict(line, SPLIT))
    ELSE IF RatioMatch(line, UNSPLIT) THEN Some(RatioDict(line, UNSPLIT))
    ELSE None
cgtcalc_parse_cgt_line(line) ==
    IF line = <<>> \/ line[1][1] = "#" THEN None
    ELSE IF CgtcalcTradeMatch(line, BUY) THEN Some(CgtcalcTradeDict(line, BUY))
    ELSE IF CgtcalcTradeMatch(line, SELL) THEN Some(CgtcalcTradeDict(line, SELL))
    ELSE IF TotalMatch(line, DIVIDEND) THEN Some(TotalDict(line, DIVIDEND))
    ELSE IF TotalMatch(line, CAPRETURN) THEN Some(TotalDict(line, CAPRETURN))
    ELSE IF RatioMatch(line, SPLIT) THEN Some(RatioDict(line, SPLIT))
    ELSE IF RatioMatch(line, UNSPLIT) THEN Some(RatioDict(line, UNSPLIT))
    ELSE None

\* datetime.strptime(date_str, "%Y-%m-%d").strftime("%d/%m/%Y"); None stands
\* for the ValueError strptime raises for a date that is not in the calendar
convert_date(date_str) ==
    LET y == int(SubSeq(date_str, 1, 4))
        m == int(SubSeq(date_str, 6, 7))
        d == int(SubSeq(date_str, 9, 10))
    IN  IF y >= 1 /\ m \in 1..12 /\ d \in 1..DaysInMonth(y, m)
        THEN Some(Pad2(d) \o <<"/">> \o Pad2(m) \o <<"/">> \o Pad4(y))
        ELSE None

\* the f-strings of convert_to_cgtcalc
RECURSIVE join(_)
join(fields) ==
    IF Len(fields) = 1 THEN fields[1]
    ELSE fields[1] \o <<" ">> \o join(Tail(fields))

cgtcalc_line(tx, dt) ==
    IF tx.type \in {BUY, SELL}
    THEN join(<<tx.type, dt, tx.ticker, tx.amount, tx.price, tx.fees>>)
    ELSE IF tx.type \in {DIVIDEND, CAPRETURN}
    THEN join(<<tx.type, dt, tx.ticker, tx.amount, tx.value>>)
    ELSE join(<<tx.type, dt, tx.ticker, tx.ratio>>)

\* convert_to_cgtcalc: the list it returns, or raised when convert_date
\* raises and the list is lost
RECURSIVE convert_to_cgtcalc_from(_, _)
convert_to_cgtcalc_from(file, k) ==
    IF k > Len(file) THEN [raised |-> FALSE, lines |-> <<>>]
    ELSE LET tx == cgtcalc_parse_cgt_line(file[k])
         IN  IF tx = None THEN convert_to_cgtcalc_from(file, k + 1)
             ELSE LET dt == convert_date(tx[1].date)
                  IN  IF dt = None THEN [raised |-> TRUE, lines |-> <<>>]
                      ELSE LET rest == convert_to_cgtcalc_from(file, k + 1)
                           IN  IF rest.raised THEN rest
                               ELSE [raised |-> FALSE,
                                     lines |-> <<cgtcalc_line(tx[1], dt[1])>> \o rest.lines]

convert_to_cgtcalc(file) == convert_to_cgtcalc_from(file, 1)

\* the .cgt files given to both adapters
MaxDslLines == 3     \* lines of a .cgt file given to both adapters

ACCUMULATION == <<"A", "C", "C", "U", "M", "U", "L", "A", "T", "I", "O", "N">>
AAPL == <<"A", "A", "P", "L">>
USD == <<"U", "S", "D">>
FEB30 == <<"2", "0", "2", "3", "-", "0", "2", "-", "3", "0">>
MONTH13 == <<"2", "0", "2", "3", "-", "1", "3", "-", "0", "1">>
Ten == <<"1", "0">>
Price150 == <<"1", "5", "0", ".", "0", "0">>
Fee5 == <<"5", ".", "0", "0">>
Total20 == <<"2", "0", ".", "0", "0">>

DslTradeLines ==
    {<<JUN01, BUY, AAPL, Ten, AT, Price150, FEES, Fee5>>,
     <<JUN01, BUY, AAPL, Ten, AT, Price150, USD, FEES, Fee5>>,
     <<JUN02, BUY, AAPL, Ten, AT, Price150, <<"F", "E", "E">>, FEES, Fee5>>,
     <<JUN01, SELL, AAPL, Ten, AT, Price150, USD>>,
     <<JUN02, SELL, AAPL, Ten, AT, Price150>>,
     <<JUN02, BUY, AAPL, Ten, AT, Price150>>}
DslOtherLines ==
    {<<JUN01, DIVIDEND, AAPL, Ten, TOTAL, Total20>>,
     <<JUN01, ACCUMULATION, AAPL, Ten, TOTAL, Total20>>,
     <<JUN01, CAPRETURN, AAPL, Ten, TOTAL, Total20>>,
     <<JUN02, SPLIT, AAPL, RATIO, <<"2">> >>,
     <<JUN02, UNSPLIT, AAPL, RATIO, <<"2">> >>,
     <<<<"#">>, <<"x">> >>,
     <<>>}
DslBadDateLines ==
    {<<FEB30, BUY, AAPL, Ten, AT, Price150>>,
     <<MONTH13, SELL, AAPL, Ten, AT, Price150>>}
DslLines == DslTradeLines \cup DslOtherLines \cup DslBadDateLines
DslFiles == SeqsUpTo(DslLines, MaxDslLines)

InitAdapters ==
    /\ IdleValidate
    /\ IdleCompare
    /\ IdleMain
    /\ IdleYear
    /\ IdleNet
    /\ IdleOrder
    /\ input_lines \in DslFiles
    /\ converted = <<>>
    /\ printed = <<>>
    /\ raw_done = FALSE
    /\ cgtcalc_lines = <<>>
    /\ cgtcalc_raised = FALSE
    /\ cgtcalc_done = FALSE

\* main of convert-to-cgtcalc.py for an existing file
CgtcalcMain ==
    /\ ~cgtcalc_done
    /\ LET r == convert_to_cgtcalc(input_lines)
       IN  /\ cgtcalc_lines' = r.lines
           /\ cgtcalc_raised' = r.raised
    /\ cgtcalc_done' = TRUE
    /\ UNCHANGED <<compareVars, yearVars, netVars, rawVars, mainVars, orderVars, validateVars>>

NextAdapters == RawMain \/ CgtcalcMain

SpecAdapters == InitAdapters /\ [][NextAdapters]_vars

\* ------------------------------------------------------------------------
\* Properties of the two adapters
\* ------------------------------------------------------------------------
\* The kinds of line of the DSL, read off the tokens of a line
IsRealDate(tok) ==
    /\ IsDateShaped(tok)
    /\ LET c == DayOf(tok)
       IN  c[1] >= 1 /\ c[2] \in 1..12 /\ c[3] \in 1..DaysInMonth(c[1], c[2])

IsAmount(tok) ==
    /\ \A k \in DOMAIN tok : IsDigit(tok[k]) \/ tok[k] = "."
    /\ \E k \in DOMAIN tok : IsDigit(tok[k])

\* what may follow the price: [CCY] [FEES amount [CCY]]
IsTradeTail(t) ==
    \/ t = <<>>
    \/ Len(t) = 1 /\ IsCurrencyToken(t[1])
    \/ Len(t) = 2 /\ t[1] = FEES /\ IsAmount(t[2])
    \/ Len(t) = 3 /\ IsCurrencyToken(t[1]) /\ t[2] = FEES /\ IsAmount(t[3])
    \/ Len(t) = 3 /\ t[1] = FEES /\ IsAmount(t[2]) /\ IsCurrencyToken(t[3])
    \/ Len(t) = 4 /\ IsCurrencyToken(t[1]) /\ t[2] = FEES /\ IsAmount(t[3])
                  /\ IsCurrencyToken(t[4])

WellFormedTrade(line) ==
    /\ Len(line) >= 6
    /\ IsRealDate(line[1])
    /\ line[2] \in {BUY, SELL}
    /\ IsAmount(line[4])
    /\ line[5] = AT
    /\ IsAmount(line[6])
    /\ IsTradeTail(SubSeq(line, 7, Len(line)))

OtherKinds == {DIVIDEND, ACCUMULATION, CAPRETURN, SPLIT, UNSPLIT}
IsOtherKind(line) == Len(line) >= 2 /\ line[2] \in OtherKinds
IsCommentOrBlank(line) == line = <<>> \/ line[1][1] = "#"

Columns(row) == split(row, ",")
TradeLinesOn(file, dt, action) ==
    {k \in DOMAIN file : WellFormedTrade(file[k]) /\ file[k][1] = dt /\ file[k][2] = action}
RowsOn(rows, dt, action) ==
    {k \in DOMAIN rows : Columns(rows[k])[1] = dt /\ Columns(rows[k])[2] = action}

\* C11: convert-to-raw emits exactly one row for each well-formed BUY or SELL
\* line (as many rows with a date and action as there are such lines), no row
\* for a line of another action kind, a comment or a blank line, and every
\* row it prints has seven columns of which the second is BUY or SELL.
C11_RawRowsAreTrades ==
    raw_done =>
        /\ \A k \in DOMAIN input_lines :
              WellFormedTrade(input_lines[k]) =>
                  Cardinality(RowsOn(converted, input_lines[k][1], input_lines[k][2]))
                      = Cardinality(TradeLinesOn(input_lines, input_lines[k][1], input_lines[k][2]))
        /\ Len(converted) <= Cardinality({k \in DOMAIN input_lines :
                                    ~IsOtherKind(input_lines[k])
                                    /\ ~IsCommentOrBlank(input_lines[k])})
        /\ Len(printed) = Len(converted)
        /\ \A k \in DOMAIN printed :
              /\ Len(Columns(printed[k])) = 7
              /\ Columns(printed[k])[2] \in {BUY, SELL}

C11_Witness ==
    /\ raw_done
    /\ Len(input_lines) = 3
    /\ WellFormedTrade(input_lines[1]) /\ FEES \in Range(input_lines[1])
    /\ IsOtherKind(input_lines[2])
    /\ IsCommentOrBlank(input_lines[3])
    /\ Len(printed) = 1
    /\ Columns(printed[1])[2] = input_lines[1][2]

\* what a well-formed BUY or SELL line says, read off its tokens
HasFees(line) == FEES \in Range(SubSeq(line, 7, Len(line)))
LineFees(line) ==
    LET i == CHOOSE i \in 7..Len(line) : line[i] = FEES
    IN  line[i + 1]

\* the day of a YYYY-MM-DD date written DD/MM/YYYY
RenderedDate(tok) ==
    SubSeq(tok, 9, 10) \o <<"/">> \o SubSeq(tok, 6, 7) \o <<"/">> \o SubSeq(tok, 1, 4)

Fields(l) == split(l, " ")

\* C12: when convert-to-cgtcalc converts a file, every well-formed BUY or SELL
\* line has an output line TYPE DD/MM/YYYY TICKER AMOUNT PRICE EXPENSES whose
\* EXPENSES is the amount after FEES when the line has a FEES clause, with or
\* without a currency code after the price, and 0 when it has none.
C12_ExpensesAreFees ==
    (cgtcalc_done /\ ~cgtcalc_raised) =>
        \A k \in DOMAIN input_lines :
            LET line == input_lines[k]
            IN  WellFormedTrade(line) =>
                    \E j \in DOMAIN cgtcalc_lines :
                        Fields(cgtcalc_lines[j]) =
                            <<line[2], RenderedDate(line[1]), line[3], line[4], line[6],
                              IF HasFees(line) THEN LineFees(line) ELSE <<"0">> >>

\* a line with the leading tokens of the BUY and SELL patterns
TradeShaped(line) ==
    /\ Len(line) >= 6
    /\ IsDateShaped(line[1])
    /\ line[2] \in {BUY, SELL}
    /\ line[5] = AT

RECURSIVE Csv(_)
Csv(fields) ==
    IF Len(fields) = 1 THEN fields[1]
    ELSE fields[1] \o <<",">> \o Csv(Tail(fields))

\* C13: in convert-to-raw the row of a BUY or SELL line carries the token
\* after the price as its currency only if that token is exactly three
\* uppercase letters and is not FEES; when no currency token follows the
\* price (the line ends there, or FEES comes next) the currency is GBP and
\* the amount after FEES is the row's fees; and the line
\* 2023-06-01 BUY AAPL 10 @ 150.00 FEES 5.00 alone yields the row
\* 2023-06-01,BUY,AAPL,10,150.00,5.00,GBP.
C13_CurrencyOrFees ==
    raw_done =>
        /\ \A k \in DOMAIN input_lines :
              LET line == input_lines[k]
              IN  TradeShaped(line) =>
                      \E j \in DOMAIN converted :
                          LET cols == Columns(converted[j])
                          IN  /\ SubSeq(cols, 1, 5) = <<line[1], line[2], line[3], line[4], line[6]>>
                              /\ cols[7] # GBP =>
                                    /\ Len(line) >= 7 /\ cols[7] = line[7]
                                    /\ IsCurrencyToken(line[7]) /\ line[7] # FEES
                              /\ Len(line) = 6 => cols[6] = <<"0">> /\ cols[7] = GBP
                              /\ (Len(line) >= 8 /\ line[7] = FEES) =>
                                    cols[6] = line[8] /\ cols[7] = GBP
        /\ input_lines = << <<JUN01, BUY, AAPL, Ten, AT, Price150, FEES, Fee5>> >>
              => printed = <<Csv(<<JUN01, BUY, AAPL, Ten, Price150, Fee5, GBP>>)>>

C13_Witness ==
    /\ raw_done
    /\ input_lines = << <<JUN01, BUY, AAPL, Ten, AT, Price150, FEES, Fee5>>,
                        <<JUN01, BUY, AAPL, Ten, AT, Price150, USD, FEES, Fee5>> >>
    /\ printed = <<Csv(<<JUN01, BUY, AAPL, Ten, Price150, Fee5, GBP>>),
                   Csv(<<JUN01, BUY, AAPL, Ten, Price150, Fee5, USD>>)>>

\* a cash dividend line: DATE DIVIDEND TICKER AMOUNT TOTAL VALUE ...
IsCashDividend(line) ==
    /\ Len(line) >= 6
    /\ IsDateShaped(line[1])
    /\ line[2] = DIVIDEND
    /\ line[5] = TOTAL

DividendLinesOut == {j \in DOMAIN cgtcalc_lines : Fields(cgtcalc_lines[j])[1] = DIVIDEND}
CashDividendsIn == {k \in DOMAIN input_lines : IsCashDividend(input_lines[k])}

\* C14 as claimed: convert-to-cgtcalc prints no line of type DIVIDEND, whatever
\* cash DIVIDEND lines the file has.
C14_NoDividendLine ==
    cgtcalc_done => DividendLinesOut = {}

\* C14: convert-to-cgtcalc prints as many lines of type DIVIDEND as the file
\* has cash DIVIDEND lines when it converts the file, and none when it ends
\* with an exception.
C14_DividendLinePerCashDividend ==
    cgtcalc_done =>
        Cardinality(DividendLinesOut) =
            IF cgtcalc_raised THEN 0 ELSE Cardinality(CashDividendsIn)

C14_Witness ==
    /\ cgtcalc_done /\ ~cgtcalc_raised
    /\ Len(input_lines) = 3
    /\ Cardinality(CashDividendsIn) = 2
    /\ WellFormedTrade(input_lines[2])
    /\ Len(cgtcalc_lines) = 3
    /\ DividendLinesOut = {1, 3}

\* well-formed lines of the kinds that carry TOTAL or RATIO
WellFormedTotal(line, keyword) ==
    /\ Len(line) = 6
    /\ IsRealDate(line[1])
    /\ line[2] = keyword
    /\ IsAmount(line[4])
    /\ line[5] = TOTAL
    /\ IsAmount(line[6])

WellFormedRatio(line, keyword) ==
    /\ Len(line) = 5
    /\ IsRealDate(line[1])
    /\ line[2] = keyword
    /\ line[4] = RATIO
    /\ IsAmount(line[5])

\* the output line a line of the file is to have, without EXPENSES for BUY and SELL
LineToEmit(line) ==
    IF WellFormedTrade(line)
    THEN Some(<<line[2], RenderedDate(line[1]), line[3], line[4], line[6]>>)
    ELSE IF WellFormedTotal(line, ACCUMULATION)
    THEN Some(<<DIVIDEND, RenderedDate(line[1]), line[3], line[4], line[6]>>)
    ELSE IF WellFormedTotal(line, CAPRETURN)
    THEN Some(<<CAPRETURN, RenderedDate(line[1]), line[3], line[4], line[6]>>)
    ELSE IF WellFormedRatio(line, SPLIT) \/ WellFormedRatio(line, UNSPLIT)
    THEN Some(<<line[2], RenderedDate(line[1]), line[3], line[5]>>)
    ELSE None

Emitted(line) ==
    \E j \in DOMAIN cgtcalc_lines :
        LET f == Fields(cgtcalc_lines[j])
            want == LineToEmit(line)[1]
        IN  IF WellFormedTrade(line)
            THEN Len(f) = 6 /\ SubSeq(f, 1, 5) = want
            ELSE f = want

\* C15: when convert-to-cgtcalc converts a file, every well-formed BUY, SELL,
\* ACCUMULATION, CAPRETURN, SPLIT and UNSPLIT line has its output line
\* (TYPE DD/MM/YYYY TICKER AMOUNT PRICE EXPENSES for BUY and SELL, a DIVIDEND
\* line for ACCUMULATION, TYPE DD/MM/YYYY TICKER AMOUNT VALUE for CAPRETURN,
\* TYPE DD/MM/YYYY TICKER RATIO for SPLIT and UNSPLIT), and there are no more
\* output lines than lines that are neither comment nor blank.
C15_OneLinePerTransaction ==
    (cgtcalc_done /\ ~cgtcalc_raised) =>
        /\ \A k \in DOMAIN input_lines :
              LineToEmit(input_lines[k]) # None => Emitted(input_lines[k])
        /\ Len(cgtcalc_lines) <= Cardinality({k \in DOMAIN input_lines :
                                        ~IsCommentOrBlank(input_lines[k])})

\* the rows a and b as they follow each other in a list of rows
Relative(rows, a, b) == SelectSeq(rows, LAMBDA r : r \in {a, b})
OutOfSourceOrder(a, b) == Relative(printed, a, b) # Relative(converted, a, b)

\* a and b come from a SELL line and a later BUY line of the same date
SameDaySellThenBuy(a, b) ==
    \E i, j \in DOMAIN converted :
        /\ i < j /\ {converted[i], converted[j]} = {a, b}
        /\ RowDay(converted[i]) = RowDay(converted[j])
        /\ ~RowIsBuy(converted[i]) /\ RowIsBuy(converted[j])

\* a and b come from a line and a later line of an earlier date
LaterDateFirst(a, b) ==
    \E i, j \in DOMAIN converted :
        /\ i < j /\ {converted[i], converted[j]} = {a, b}
        /\ RowDay(converted[i]) > RowDay(converted[j])

\* an output line of convert-to-cgtcalc and a line it can come from
ComesFrom(out, line) ==
    /\ Len(line) >= 3
    /\ Fields(out)[1] = line[2]
    /\ Fields(out)[2] = RenderedDate(line[1])
    /\ Fields(out)[3] = line[3]

\* the output lines of convert-to-cgtcalc follow the order of their lines
CgtcalcInSourceOrder ==
    \E g \in [DOMAIN cgtcalc_lines -> DOMAIN input_lines] :
        /\ \A i, j \in DOMAIN g : i < j => g[i] < g[j]
        /\ \A j \in DOMAIN g : ComesFrom(cgtcalc_lines[j], input_lines[g[j]])

\* C16 as claimed: the output of convert-to-cgtcalc is in source-line order,
\* and two rows of convert-to-raw are printed in the opposite order to their
\* lines only if they have the same date, the earlier line a SELL and the
\* later a BUY.
C16_OnlySameDaySwap ==
    /\ cgtcalc_done => CgtcalcInSourceOrder
    /\ raw_done =>
          \A a, b \in Range(converted) :
              OutOfSourceOrder(a, b) => SameDaySellThenBuy(a, b)

\* C16: the output of convert-to-cgtcalc is in source-line order, and two
\* rows of convert-to-raw are printed in the opposite order to their lines
\* only if the later line has the earlier date, or they have the same date,
\* the earlier line a SELL and the later a BUY.
C16_OnlyDateOrSameDaySwap ==
    /\ cgtcalc_done => CgtcalcInSourceOrder
    /\ raw_done =>
          \A a, b \in Range(converted) :
              OutOfSourceOrder(a, b) => LaterDateFirst(a, b) \/ SameDaySellThenBuy(a, b)

C16_Witness ==
    /\ raw_done /\ cgtcalc_done /\ ~cgtcalc_raised
    /\ Len(converted) = 3 /\ Len(cgtcalc_lines) = 3
    /\ RowDate(converted[1]) = JUN02 /\ ~RowIsBuy(converted[1])
    /\ RowDate(converted[2]) = JUN01 /\ ~RowIsBuy(converted[2])
    /\ RowDate(converted[3]) = JUN01 /\ RowIsBuy(converted[3])
    /\ printed = <<converted[3], converted[2], converted[1]>>
    /\ Fields(cgtcalc_lines[1])[1] = SELL /\ Fields(cgtcalc_lines[1])[2] = RenderedDate(JUN02)
    /\ Fields(cgtcalc_lines[3])[1] = BUY /\ Fields(cgtcalc_lines[3])[2] = RenderedDate(JUN01)

\* a line whose date token has the shape of a date and is not in the calendar
BadDate(line) == line # <<>> /\ IsDateShaped(line[1]) /\ ~IsRealDate(line[1])

\* C17: a line whose date is shaped YYYY-MM-DD and is not a calendar date has
\* no row in the output of convert-to-raw, convert-to-cgtcalc does not end
\* with an exception, and the well-formed BUY, SELL, CAPRETURN, SPLIT and
\* UNSPLIT lines of the file still have their output lines.
C17_BadDateRejected ==
    /\ raw_done =>
          \A k \in DOMAIN input_lines :
              BadDate(input_lines[k]) =>
                  \A j \in DOMAIN printed : Columns(printed[j])[1] # input_lines[k][1]
    /\ cgtcalc_done =>
          /\ ~cgtcalc_raised
          /\ \A k \in DOMAIN input_lines :
                (LineToEmit(input_lines[k]) # None /\ input_lines[k][2] # ACCUMULATION)
                    => Emitted(input_lines[k])

\* the date, ticker and amount of an output line of convert-to-cgtcalc are
\* those of the line (SPLIT and UNSPLIT lines have no amount)
CgtcalcCarries(out, line) ==
    /\ Fields(out)[2] = RenderedDate(line[1])
    /\ Fields(out)[3] = line[3]
    /\ line[2] \notin {SPLIT, UNSPLIT} => Fields(out)[4] = line[4]

\* the date, symbol and quantity of a row of convert-to-raw are those of the line
RawCarries(row, line) ==
    /\ Columns(row)[1] = line[1]
    /\ Columns(row)[3] = line[3]
    /\ Columns(row)[4] = line[4]

AcceptedByCgtcalc(line) == cgtcalc_parse_cgt_line(line) # None
AcceptedByRaw(line) == parse_cgt_line(line) # None

\* C18: every line convert-to-cgtcalc's parser accepts has an output line
\* with its date as DD/MM/YYYY, its ticker and its amount (the format has
\* every action the parser accepts); every line convert-to-raw's parser
\* accepts has a row with its date, symbol and quantity; and every output
\* line or row of either adapter carries the date, ticker and amount of an
\* accepted line of the file.
C18_RowsCarrySourceFields ==
    /\ cgtcalc_done =>
          /\ \A k \in DOMAIN input_lines :
                AcceptedByCgtcalc(input_lines[k]) =>
                    \E j \in DOMAIN cgtcalc_lines :
                        CgtcalcCarries(cgtcalc_lines[j], input_lines[k])
          /\ \A j \in DOMAIN cgtcalc_lines :
                \E k \in DOMAIN input_lines :
                    /\ AcceptedByCgtcalc(input_lines[k])
                    /\ CgtcalcCarries(cgtcalc_lines[j], input_lines[k])
    /\ raw_done =>
          /\ \A k \in DOMAIN input_lines :
                AcceptedByRaw(input_lines[k]) =>
                    \E j \in DOMAIN printed : RawCarries(printed[j], input_lines[k])
          /\ \A j \in DOMAIN printed :
                \E k \in DOMAIN input_lines :
                    /\ AcceptedByRaw(input_lines[k])
                    /\ RawCarries(printed[j], input_lines[k])

\* ------------------------------------------------------------------------
\* Properties of a failing cgt-tool and of the order of a batch
\* ------------------------------------------------------------------------
ToolFailed == {k \in DOMAIN processed : processed[k].facts.tool_failed}

\* C20: for a file on which cgt-tool fails (an exception such as a timeout or
\* unparseable JSON, or a return code other than 0) validate_file returns
\* not passed with both statuses error, neither calculator having been run
\* or compared, and a batch with such a file exits 1.
C20_ToolFailureIsError ==
    /\ \A k \in ToolFailed :
          LET out == processed[k].out
          IN  /\ ~out.passed
              /\ out.calc_status = "error" /\ out.cgtcalc_status = "error"
              /\ ~out.calc_ran /\ ~out.cgtcalc_ran
              /\ ~out.calc_compared /\ ~out.cgtcalc_compared
    /\ (exit_code # None /\ ToolFailed # {}) => exit_code = Some(1)

\* ------------------------------------------------------------------------
\* cross-validate.py: main on a command line and on a permutation of it
\* ------------------------------------------------------------------------
\* what main sees of a file: whether it exists and what validate_file returned
Seen(r) ==
    [exists |-> r.facts.exists, passed |-> r.out.passed,
     calc_status |-> r.out.calc_status, cgtcalc_status |-> r.out.cgtcalc_status]

BatchOutcomes ==
    {Seen(r) : r \in FileRuns} \cup {Seen([facts |-> MissingFacts, out |-> NotValidated])}

\* the body of the loop over files
LoopBodyLastWins(acc, f) ==
    IF ~f.exists THEN [acc EXCEPT !.all_passed = FALSE]
    ELSE [all_passed |-> f.passed,
          summary |-> [acc.summary EXCEPT !["cgt-calc"][f.calc_status] = @ + 1,
                                          !["cgtcalc"][f.cgtcalc_status] = @ + 1]]
LoopBody(acc, f) ==
    IF ~f.exists THEN [acc EXCEPT !.all_passed = FALSE]
    ELSE [all_passed |-> acc.all_passed /\ f.passed,
          summary |-> [acc.summary EXCEPT !["cgt-calc"][f.calc_status] = @ + 1,
                                          !["cgtcalc"][f.cgtcalc_status] = @ + 1]]

RECURSIVE main_loop(_, _)
main_loop(files, k) ==
    IF k = 0
    THEN [all_passed |-> TRUE,
          summary |-> [c \in {"cgt-calc", "cgtcalc"} |-> [st \in Statuses |-> 0]]]
    ELSE LoopBody(main_loop(files, k - 1), files[k])

\* main: the summary it prints and the status it exits with
main_outcome(files) ==
    LET acc == main_loop(files, Len(files))
    IN  [summary |-> acc.summary,
         exit_code |-> IF FinalPassed(acc.all_passed, acc.summary) THEN 0 ELSE 1]

Orders(n) == {f \in [1..n -> 1..n] : \A i, j \in 1..n : i # j => f[i] # f[j]}
Permuted(files, perm) == [k \in DOMAIN files |-> files[perm[k]]]

InitOrder ==
    /\ IdleValidate
    /\ IdleCompare
    /\ IdleYear
    /\ IdleNet
    /\ IdleRaw
    /\ IdleMain
    /\ IdleCgtcalc
    /\ \E n \in 1..MaxFiles :
          /\ batch_files \in [1..n -> BatchOutcomes]
          /\ batch_perm \in Orders(n)
    /\ outcome_in_order = None
    /\ outcome_permuted = None

\* main on the command line as given
MainInOrder ==
    /\ outcome_in_order = None
    /\ outcome_in_order' = Some(main_outcome(batch_files))
    /\ UNCHANGED <<batch_files, batch_perm, outcome_permuted>>
    /\ UNCHANGED <<compareVars, yearVars, netVars, rawVars, mainVars, cgtcalcVars, validateVars>>

\* main on the same files in the other order
MainPermuted ==
    /\ outcome_permuted = None
    /\ outcome_permuted' = Some(main_outcome(Permuted(batch_files, batch_perm)))
    /\ UNCHANGED <<batch_files, batch_perm, outcome_in_order>>
    /\ UNCHANGED <<compareVars, yearVars, netVars, rawVars, mainVars, cgtcalcVars, validateVars>>

NextOrder == MainInOrder \/ MainPermuted

SpecOrder == InitOrder /\ [][NextOrder]_vars

Existing(files) == {k \in DOMAIN files : files[k].exists}
CounterSum(sm, c) == sm[c]["ok"] + sm[c]["diff"] + sm[c]["skip"] + sm[c]["error"]

\* C19: main reports the same counters for each calculator and exits with
\* the same status for a command line and for any permutation of it, and for
\* each calculator the four counters add up to the number of files that exist.
C19_OrderIndependent ==
    /\ (outcome_in_order # None /\ outcome_permuted # None)
          => outcome_in_order = outcome_permuted
    /\ outcome_in_order # None =>
          \A c \in {"cgt-calc", "cgtcalc"} :
              CounterSum(outcome_in_order[1].summary, c) = Cardinality(Existing(batch_files))

C19_Witness ==
    /\ outcome_in_order # None /\ outcome_permuted # None
    /\ Len(batch_files) = 2
    /\ batch_perm = <<2, 1>>
    /\ ~batch_files[1].exists
    /\ batch_files[2].exists /\ batch_files[2].passed
    /\ outcome_permuted[1].exit_code = 1
    /\ outcome_permuted[1].summary["cgtcalc"]["ok"] = 1

\* ------------------------------------------------------------------------
\* cross-validate.py: validate_file on one file
\* ------------------------------------------------------------------------
MaxOpLines == 2      \* lines of a .cgt file given to validate_file

OpLines ==
    {BuyLine,
     SplitLine,
     <<JUN01, UNSPLIT, <<"A">>, RATIO, <<"2">> >>,
     <<JUN01, CAPRETURN, <<"A">>, <<"1", "0">>, TOTAL, <<"5">> >>,
     << <<"#">>, SPLIT >>,
     <<>>,
     <<JUN01, BUY, <<"S", "P", "L", "I", "T", "S">>, <<"1", "0">>, AT, <<"5">> >>,
     <<JUN01, BUY, <<"X", "-", "S", "P", "L", "I", "T">>, <<"1", "0">>, AT, <<"5">> >>}
OpFiles == SeqsUpTo(OpLines, MaxOpLines)

ValidateEnvs ==
    {[exists |-> TRUE, file |-> f, tool |-> t,
      raw_conv |-> c.raw_conv, uvx |-> c.uvx, calc_out |-> c.calc_out,
      cgtcalc_found |-> g.cgtcalc_found, cgtcalc_conv |-> g.cgtcalc_conv,
      cgtcalc_run |-> g.cgtcalc_run, cgtcalc_out |-> g.cgtcalc_out]
        : f \in OpFiles, t \in ToolRuns, c \in CalcRuns,
          g \in {r \in CgtcalcRuns : ~r.cgtcalc_found
                                     \/ (r.cgtcalc_conv = "ok" /\ r.cgtcalc_run = "ok")}}

\* run_cgt_calc was called and went on to launch convert-to-raw.py
CalcConverted(e) == ToolOk(e) /\ ~has_unsupported_ops(e.file)

InitValidate ==
    /\ IdleCompare
    /\ IdleYear
    /\ IdleNet
    /\ IdleRaw
    /\ IdleMain
    /\ IdleCgtcalc
    /\ IdleOrder
    /\ file_env \in ValidateEnvs
    /\ file_out = None
    /\ file_validated = FALSE

\* validate_file on the file
ValidateFile ==
    /\ ~file_validated
    /\ file_out' = Some([out |-> validate_file(file_env),
                         calc_converted |-> CalcConverted(file_env),
                         calc_launched |-> CalcLaunched(file_env)])
    /\ file_validated' = TRUE
    /\ UNCHANGED file_env
    /\ UNCHANGED <<compareVars, yearVars, netVars, rawVars, mainVars, cgtcalcVars, orderVars>>

NextValidate == ValidateFile

SpecValidate == InitValidate /\ [][NextValidate]_vars

\* ------------------------------------------------------------------------
\* Properties of the cgt-calc skip
\* ------------------------------------------------------------------------
\* the words of a token: its longest runs of word characters
Words(tok) ==
    {SubSeq(tok, i, j) : <<i, j>> \in
        {p \in (DOMAIN tok) \X (DOMAIN tok) :
            /\ p[1] <= p[2]
            /\ \A k \in p[1]..p[2] : IsWordChar(tok[k])
            /\ p[1] > 1 => ~IsWordChar(tok[p[1] - 1])
            /\ p[2] < Len(tok) => ~IsWordChar(tok[p[2] + 1])}}

IsComment(line) == line[1][1] = "#"

\* SPLIT, UNSPLIT or CAPRETURN is a word of a line that is neither comment nor blank
NamesUnsupportedOp(file) ==
    \E k \in DOMAIN file :
        /\ file[k] # <<>>
        /\ ~IsComment(file[k])
        /\ \E t \in DOMAIN file[k] : Words(file[k][t]) \cap {SPLIT, UNSPLIT, CAPRETURN} # {}

NotConvertedNorRun(o) == ~o.calc_converted /\ ~o.calc_launched
NoCalcDiscrepancy(o) == ~o.out.calc_compared /\ o.out.calc_disc = <<>>

\* C21 as claimed: for a file that names SPLIT, UNSPLIT or CAPRETURN
\* convert-to-raw and cgt-calc are not launched, validate_file gives cgt-calc
\* the status skip and no cgt-calc discrepancy is produced; for a file that
\* names none of them run_cgt_calc, when called, goes on to the conversion.
C21_UnsupportedIsSkip ==
    file_validated =>
        LET o == file_out[1]
        IN  IF NamesUnsupportedOp(file_env.file)
            THEN /\ NotConvertedNorRun(o)
                 /\ o.out.calc_status = "skip"
                 /\ NoCalcDiscrepancy(o)
            ELSE o.out.calc_ran => o.calc_converted

\* C21: the same, with the status skip given when cgt-tool returned no error
\* message (run_cgt_calc is called), and the status error given without
\* calling run_cgt_calc when cgt-tool returned an error message.
C21_UnsupportedIsSkipWhenToolOk ==
    file_validated =>
        LET o == file_out[1]
        IN  IF NamesUnsupportedOp(file_env.file)
            THEN /\ NotConvertedNorRun(o)
                 /\ o.out.calc_status = IF o.out.calc_ran THEN "skip" ELSE "error"
                 /\ o.out.calc_ran = ~Truthy(run_cgt_tool(file_env).error)
                 /\ NoCalcDiscrepancy(o)
            ELSE o.out.calc_ran => o.calc_converted

C21_Witness ==
    /\ file_validated
    /\ file_env.file = <<BuyLine, SplitLine>>
    /\ file_env.tool.tax_years # <<>>
    /\ file_env.raw_conv = "ok" /\ file_env.uvx = "ok"
    /\ file_env.calc_out.gain = 55 * DecimalUnit
    /\ file_out[1].out.calc_ran
    /\ file_out[1].out.calc_status = "skip"
    /\ ~file_out[1].calc_launched
====
